---------------------------- MODULE Spec2Model ----------------------------
(***************************************************************************)
(* Model of grievance_app_lite.py: the Streamlit front end of the          *)
(* grievance system (class LiteGrievanceSystem).                           *)
(*                                                                         *)
(* Every action is one user event in one browser session together with    *)
(* the script run(s) it triggers: Streamlit re-executes run() from the top *)
(* on every event, so a handler is "apply the event, then render the       *)
(* selected page against the database as it is now".                       *)
(*                                                                         *)
(* Numbers: the compound score and the impact score are reals in the       *)
(* code.  They are modelled as integers in units of 10^-6, so 1.0 is One,  *)
(* 0.05 is 50000 and one word adds 10000 (1/100) to the impact score.      *)
(*                                                                         *)
(* database.py (class DatabaseManager) is not part of the source tree; its *)
(* operations are modelled from the interface the specification gives,     *)
(* and they are taken not to raise.  Rows carry no created_at and no       *)
(* rating: the front end orders by neither and writes neither.             *)
(*                                                                         *)
(* A handler is one atomic step.  Sessions share only the database, and a  *)
(* run that read the table before another session's write and wrote after  *)
(* it behaves like a run whose widgets kept their values (reset = FALSE).  *)
(***************************************************************************)
EXTENDS Integers, Sequences, FiniteSets, TLC

VARIABLES
    users,       \* the users table: username -> NoUser or [id, role, email]
    grievances,  \* the grievances table, in insertion order (row i has id i)
    session,     \* st.session_state of each browser session: user_id, username, user_role
    page,        \* the value of the "Navigate to:" selectbox of each session
    widgets,     \* the keyed admin-panel widgets of each session: status_<id>, response_<id>
    actor,       \* the session the most recent handler ran in
    msg,         \* the st.success / st.error / st.info line that handler left on the screen
    shown,       \* the ids of the grievances whose rows that handler rendered
    calls,       \* the collaborator calls that handler made, in order
    was_in_progress  \* history: the grievances that have ever been In Progress

vars == <<users, grievances, session, page, widgets, actor, msg, shown, calls, was_in_progress>>

----------------------------------------------------------------------------
(* Bounds of the model *)

MaxGrievances == 1

(* Fixed-point representation of the reals of analyze_sentiment_lite *)

One == 1000000
PositiveThreshold == 50000
NegativeThreshold == -50000
HighPriorityThreshold == -500000
WordWeight == 10000
FallbackImpact == 500000
AdminPanelLimit == 10
MinPasswordLength == 6

----------------------------------------------------------------------------
(* Input domains *)

Sessions == {"s1", "s2"}
Usernames == {"alice", "bob"}
Form(username, email, role) == [username |-> username, email |-> email, role |-> role]
RegistrationForms ==
    { Form("alice", "a@uni.edu", "student"), Form("bob", "b@uni.edu", "staff"),
      Form("bob", "b@uni.edu", "admin"), Form("bob", "a@uni.edu", "staff") }
TriageForms ==
    { Form("alice", "a@uni.edu", "student"), Form("bob", "b@uni.edu", "staff"),
      Form("bob", "b@uni.edu", "admin") }
Passwords == {"short", "secret1"}
Categories == {"Academic", "Other"}
StatusOptions == <<"Pending", "In Progress", "Resolved">>
Statuses == {StatusOptions[i] : i \in DOMAIN StatusOptions}
ResponseTexts == {"", "Being looked into"}
Titles == {"", "Leaky roof"}

None == "None"
NoUser == [id |-> 0, role |-> None, email |-> None, password |-> None]

(* An optional integer (a Python int or None) is a sequence of at most one  *)
(* element; Truthy is Python's truth value of it.                            *)
NoId == <<>>
SomeId(n) == <<n>>
Truthy(opt) == opt # NoId /\ opt[1] # 0

NoSession == [user_id |-> NoId, username |-> None, user_role |-> None]

(* A text is what the code can observe of a Python string: whether it is    *)
(* truthy (non-empty), how many words text.split() gives, and the compound  *)
(* score the external scorer assigns to it.                                 *)
Text(nonempty, words, compound) ==
    [nonempty |-> nonempty, words |-> words, compound |-> compound]

EmptyText == Text(FALSE, 0, 0)

(* Descriptions typed into the submission form of the application model *)
Descriptions ==
    { EmptyText,
      Text(TRUE, 6, -624900) }    \* a strongly negative description of six words

(* Scores and lengths around every boundary of the rule table *)
ProbeScores ==
    { -One, -500010, -500001, HighPriorityThreshold, -499999, -50001, NegativeThreshold,
      -49999, -1, 0, 1, 49999, PositiveThreshold, 50001, 500000, One }

ProbeWords == {0, 1, 49, 50, 51, 95, 99, 100, 101, 1000}

ProbeTexts == { Text(TRUE, n, c) : n \in ProbeWords, c \in ProbeScores }

ScorerOutcomes == {"ok", "vader_fails", "textblob_fails"}

----------------------------------------------------------------------------
(* Small helpers *)

Abs(x) == IF x < 0 THEN -x ELSE x

Min(a, b) == IF a <= b THEN a ELSE b

Reverse(seq) == [i \in 1..Len(seq) |-> seq[Len(seq) + 1 - i]]

Take(seq, n) == SubSeq(seq, 1, Min(n, Len(seq)))

Ids(seq) == { seq[i].id : i \in DOMAIN seq }

Call(op, s, role, arg, ret) ==
    [op |-> op, sess |-> s, role |-> role, arg |-> arg, ret |-> ret]


----------------------------------------------------------------------------
(* analyze_sentiment_lite: the sentiment-to-priority classifier *)

AnalysisKeys == {"positive", "negative", "neutral", "textblob_polarity"}

FallbackAnalysis ==
    [sentiment |-> "neutral", priority |-> 2, compound_score |-> 0,
     impact_score |-> FallbackImpact, analysis |-> {}]

(* Classify with the boundaries excluded: > and < for >= and <= *)
ClassifyStrict(compound_score) ==
    IF compound_score > PositiveThreshold
    THEN [sentiment |-> "positive", priority |-> 3]
    ELSE IF compound_score < NegativeThreshold
         THEN [sentiment |-> "negative",
               priority |-> IF compound_score < HighPriorityThreshold THEN 1 ELSE 2]
         ELSE [sentiment |-> "neutral", priority |-> 2]

Classify(compound_score) ==
    IF compound_score >= PositiveThreshold
    THEN [sentiment |-> "positive", priority |-> 3]
    ELSE IF compound_score <= NegativeThreshold
         THEN [sentiment |-> "negative",
               priority |-> IF compound_score <= HighPriorityThreshold THEN 1 ELSE 2]
         ELSE [sentiment |-> "neutral", priority |-> 2]

(* ImpactScore without the min(..., 1.0) *)
ImpactUnclamped(compound_score, words) == Abs(compound_score) + words * WordWeight

ImpactScore(compound_score, words) ==
    Min(Abs(compound_score) + words * WordWeight, One)

(* analyze_sentiment_lite with the TextBlob polarity defaulted on failure   *)
(* instead of the whole record                                              *)
analyze_narrow_except(text, outcome) ==
    IF outcome = "vader_fails"
    THEN FallbackAnalysis
    ELSE [sentiment |-> Classify(text.compound).sentiment,
          priority |-> Classify(text.compound).priority,
          compound_score |-> text.compound,
          impact_score |-> ImpactScore(text.compound, text.words),
          analysis |-> IF outcome = "ok" THEN AnalysisKeys ELSE {}]

(* outcome tells whether the two external scorers answer or raise; both    *)
(* calls sit inside the try block, so either failure gives the fallback.   *)
analyze_sentiment_lite(text, outcome) ==
    IF outcome = "ok"
    THEN [sentiment |-> Classify(text.compound).sentiment,
          priority |-> Classify(text.compound).priority,
          compound_score |-> text.compound,
          impact_score |-> ImpactScore(text.compound, text.words),
          analysis |-> AnalysisKeys]
    ELSE FallbackAnalysis

----------------------------------------------------------------------------
(* DatabaseManager: the persistence collaborator *)

Registered(U) == { u \in DOMAIN U : U[u] # NoUser }

authenticate_user(U, username, password) ==
    IF U[username] # NoUser /\ U[username].password = password
    THEN [user_id |-> SomeId(U[username].id), username |-> username, user_role |-> U[username].role]
    ELSE NoSession

UserExists(U, username, email) ==
    \/ U[username] # NoUser
    \/ \E u \in Registered(U) : U[u].email = email

create_user(U, username, email, password, role) ==
    IF UserExists(U, username, email)
    THEN U
    ELSE [U EXCEPT ![username] =
            [id |-> Cardinality(Registered(U)) + 1, role |-> role,
             email |-> email, password |-> password]]

submit_grievance(G, user_id, title, category, description, sentiment, priority) ==
    Append(G, [id |-> Len(G) + 1, user_id |-> user_id, title |-> title,
               category |-> category, description |-> description,
               sentiment |-> sentiment, priority |-> priority,
               status |-> "Pending", response |-> None])

(* newest first; all rows when user_id is None *)
get_grievances(G, user_id) ==
    LET Keep(row) == user_id = NoId \/ row.user_id = user_id[1]
    IN  Reverse(SelectSeq(G, Keep))

update_grievance_status(G, id, status, response) ==
    [i \in DOMAIN G |->
        IF G[i].id = id
        THEN [G[i] EXCEPT !.status = status, !.response = response]
        ELSE G[i]]


----------------------------------------------------------------------------
(* Rendering: what one script run puts on a session's screen *)

(* the role list with student added *)
StaffRolesWithStudent == {"admin", "staff", "student"}

StaffRoles == {"admin", "staff"}

(* the sidebar offering all five pages to every role *)
PagesForEveryone(user_role) ==
    <<"Dashboard", "Submit Grievance", "My Grievances", "Admin Panel", "Analytics">>

Pages(user_role) ==
    IF user_role \in StaffRoles
    THEN <<"Dashboard", "Submit Grievance", "My Grievances", "Admin Panel", "Analytics">>
    ELSE <<"Dashboard", "Submit Grievance", "My Grievances">>

PageSet(user_role) == { Pages(user_role)[i] : i \in DOMAIN Pages(user_role) }

NoWidgets == <<>>

Screen(m, ids, w, c) == [msg |-> m, shown |-> ids, widgets |-> w, calls |-> c]

(* The value a keyed widget returns in a run.  A widget seen for the first  *)
(* time returns its default.  A widget whose default differs from the one   *)
(* it was last rendered with either keeps the value held in the session or  *)
(* is re-created with the new default, depending on how the framework       *)
(* derives widget identity; reset chooses between the two.                  *)
WidgetValue(known, old, oldDefault, default, reset) ==
    IF ~known \/ (reset /\ oldDefault # default) THEN default ELSE old

RenderWidgets(old, rows, reset) ==
    [id \in Ids(rows) |->
        LET row == CHOOSE r \in { rows[i] : i \in DOMAIN rows } : r.id = id
            known == id \in DOMAIN old
            defResponse == IF row.response = None THEN "" ELSE row.response
        IN  [status |-> WidgetValue(known, IF known THEN old[id].status ELSE None,
                                    IF known THEN old[id].defStatus ELSE None,
                                    row.status, reset),
             response |-> WidgetValue(known, IF known THEN old[id].response ELSE None,
                                      IF known THEN old[id].defResponse ELSE None,
                                      defResponse, reset),
             defStatus |-> row.status,
             defResponse |-> defResponse]]

_show_dashboard(s, sess) ==
    Screen(None, {}, NoWidgets,
           <<Call("get_analytics_data", s, sess.user_role, <<>>, None)>>)

_show_my_grievances(s, sess, G) ==
    LET user_id == IF sess.user_role # "admin" THEN sess.user_id ELSE NoId
        rows == get_grievances(G, user_id)
        c == <<Call("get_grievances", s, sess.user_role, user_id, Ids(rows))>>
    IN  IF rows = <<>>
        THEN Screen("You haven't submitted any grievances yet.", {}, NoWidgets, c)
        ELSE Screen(None, Ids(rows), NoWidgets, c)

_show_admin_panel(s, sess, G, old, reset) ==
    IF sess.user_role \notin StaffRoles
    THEN Screen("Access denied. Admin privileges required.", {}, NoWidgets, <<>>)
    ELSE LET rows == get_grievances(G, NoId)
             c == <<Call("get_grievances", s, sess.user_role, NoId, Ids(rows))>>
         IN  IF rows = <<>>
             THEN Screen("No grievances to manage.", {}, NoWidgets, c)
             ELSE Screen(None, Ids(Take(rows, AdminPanelLimit)),
                         RenderWidgets(old, Take(rows, AdminPanelLimit), reset), c)

_show_analytics(s, sess, G) ==
    LET rows == get_grievances(G, NoId)
        c == <<Call("get_grievances", s, sess.user_role, NoId, Ids(rows))>>
    IN  IF rows = <<>>
        THEN Screen("No data available for analysis.", {}, NoWidgets, c)
        ELSE Screen(None, Ids(rows), NoWidgets, c)

(* the page dispatch at the end of _show_main_app *)
_show_main_app(s, sess, selected_page, G, old, reset) ==
    CASE selected_page = "Dashboard" -> _show_dashboard(s, sess)
      [] selected_page = "Submit Grievance" -> Screen(None, {}, NoWidgets, <<>>)
      [] selected_page = "My Grievances" -> _show_my_grievances(s, sess, G)
      [] selected_page = "Admin Panel" -> _show_admin_panel(s, sess, G, old, reset)
      [] selected_page = "Analytics" -> _show_analytics(s, sess, G)
      [] OTHER -> Screen(None, {}, NoWidgets, <<>>)

(* put a rendered screen on session s *)
Display(s, scr, before) ==
    /\ actor' = s
    /\ msg' = scr.msg
    /\ shown' = scr.shown
    /\ widgets' = [widgets EXCEPT ![s] = scr.widgets]
    /\ calls' = before \o scr.calls


----------------------------------------------------------------------------
(* Initial state: empty tables, every session on the login page *)

Init ==
    /\ users = [u \in Usernames |-> NoUser]
    /\ grievances = <<>>
    /\ session = [s \in Sessions |-> NoSession]
    /\ page = [s \in Sessions |-> None]
    /\ widgets = [s \in Sessions |-> NoWidgets]
    /\ actor = None
    /\ msg = None
    /\ shown = {}
    /\ was_in_progress = {}
    /\ calls = <<>>

LoggedIn(s) == Truthy(session[s].user_id)

----------------------------------------------------------------------------
(* Handlers *)

(* _show_registration_form, on the login page *)
Register(s, username, email, password, confirm_password, role) ==
    /\ ~LoggedIn(s)
    /\ IF password # confirm_password
       THEN /\ Display(s, Screen("Passwords do not match", {}, NoWidgets, <<>>), <<>>)
            /\ users' = users
       ELSE IF Len(password) < MinPasswordLength
       THEN /\ Display(s, Screen("Password must be at least 6 characters", {}, NoWidgets, <<>>), <<>>)
            /\ users' = users
       ELSE LET created == ~UserExists(users, username, email)
                c == <<Call("create_user", s, None, <<>>, created)>>
            IN  /\ users' = create_user(users, username, email, password, role)
                /\ Display(s, Screen(IF created
                                     THEN "Registration successful! Please login."
                                     ELSE "Username or email already exists",
                                     {}, NoWidgets, <<>>), c)
    /\ UNCHANGED <<grievances, session, page, was_in_progress>>

(* _show_login_form; a successful login reruns the script into the main app, *)
(* whose page selectbox starts on its first option                          *)
Login(s, username, password) ==
    /\ ~LoggedIn(s)
    /\ LET user == authenticate_user(users, username, password)
           c == <<Call("authenticate_user", s, None, <<>>, user # NoSession)>>
       IN  IF user # NoSession
           THEN /\ session' = [session EXCEPT ![s] = user]
                /\ page' = [page EXCEPT ![s] = Pages(user.user_role)[1]]
                /\ Display(s, _show_main_app(s, user, Pages(user.user_role)[1],
                                             grievances, NoWidgets, FALSE), c)
           ELSE /\ Display(s, Screen("Invalid username or password", {}, NoWidgets, <<>>), c)
                /\ UNCHANGED <<session, page>>
    /\ UNCHANGED <<users, grievances, was_in_progress>>

(* the "Navigate to:" selectbox of the sidebar *)
Navigate(s, selected_page) ==
    /\ LoggedIn(s)
    /\ selected_page \in PageSet(session[s].user_role)
    /\ selected_page # page[s]
    /\ page' = [page EXCEPT ![s] = selected_page]
    /\ Display(s, _show_main_app(s, session[s], selected_page, grievances, NoWidgets, FALSE),
               <<>>)
    /\ UNCHANGED <<users, grievances, session, was_in_progress>>

(* the Logout button: every key of the session state is deleted *)
Logout(s) ==
    /\ LoggedIn(s)
    /\ session' = [session EXCEPT ![s] = NoSession]
    /\ page' = [page EXCEPT ![s] = None]
    /\ Display(s, Screen(None, {}, NoWidgets, <<>>), <<>>)
    /\ UNCHANGED <<users, grievances, was_in_progress>>

(* the guard testing the title alone *)
RequiredTitleOnly(title, description) == title # ""

(* the guard of the submission branch: title and description are truthy *)
RequiredFieldsPresent(title, description) == title # "" /\ description.nonempty

(* _show_submit_grievance: the form's submit button *)
SubmitGrievance(s, title, category, anonymous, description, outcome) ==
    /\ LoggedIn(s)
    /\ page[s] = "Submit Grievance"
    /\ IF RequiredFieldsPresent(title, description)
       THEN /\ Len(grievances) < MaxGrievances
            /\ LET analysis == analyze_sentiment_lite(description, outcome)
                   user_id == IF anonymous THEN NoId ELSE session[s].user_id
                   stored_id == IF Truthy(user_id) THEN user_id[1] ELSE 0
                   role == session[s].user_role
               IN  /\ grievances' = submit_grievance(grievances, stored_id, title, category,
                                                     description, analysis.sentiment,
                                                     analysis.priority)
                   /\ was_in_progress' = was_in_progress
                   /\ Display(s, Screen("Grievance submitted successfully!", {}, NoWidgets, <<>>),
                              << Call("grievance_form", s, role, <<title, description>>, TRUE),
                                 Call("analyze_sentiment_lite", s, role,
                                      <<description, outcome>>, analysis),
                                 Call("submit_grievance", s, role,
                                      <<stored_id, title, category, description,
                                        analysis.sentiment, analysis.priority>>,
                                      Len(grievances) + 1) >>)
       ELSE /\ Display(s, Screen("Please fill in all required fields.", {}, NoWidgets, <<>>),
                       <<Call("grievance_form", s, session[s].user_role,
                              <<title, description>>, TRUE)>>)
            /\ UNCHANGED <<grievances, was_in_progress>>
    /\ UNCHANGED <<users, session, page>>

(* a change of one widget, status_<id> or response_<id>, in the admin       *)
(* panel: the new value reaches the script, which reruns                    *)
AdminEdit(s, id, new_status, response, reset) ==
    /\ LoggedIn(s)
    /\ page[s] = "Admin Panel"
    /\ id \in DOMAIN widgets[s]
    /\ (new_status # widgets[s][id].status) # (response # widgets[s][id].response)
    /\ LET edited == [widgets[s] EXCEPT ![id].status = new_status, ![id].response = response]
       IN  Display(s, _show_main_app(s, session[s], page[s], grievances, edited, reset), <<>>)
    /\ UNCHANGED <<users, grievances, session, page, was_in_progress>>

Rank(status) == CHOOSE i \in DOMAIN StatusOptions : StatusOptions[i] = status

RowOf(G, id) == G[CHOOSE i \in DOMAIN G : G[i].id = id]

(* variants of the write: one that also lowers the priority of a resolved   *)
(* case, one that ignores a move to an earlier status, one that ignores a   *)
(* move that skips a status, one that keeps the stored response when the    *)
(* submitted text is empty                                                  *)
UpdateWriteReprioritise(G, id, new_status, response) ==
    [i \in DOMAIN G |->
        IF G[i].id = id
        THEN [G[i] EXCEPT !.status = new_status, !.response = response,
                          !.priority = IF new_status = "Resolved" THEN 3 ELSE @]
        ELSE G[i]]

UpdateWriteForwardOnly(G, id, new_status, response) ==
    IF Rank(new_status) >= Rank(RowOf(G, id).status)
    THEN update_grievance_status(G, id, new_status, response)
    ELSE G

UpdateWriteOneStep(G, id, new_status, response) ==
    IF Rank(new_status) <= Rank(RowOf(G, id).status) + 1
    THEN update_grievance_status(G, id, new_status, response)
    ELSE G

UpdateWriteKeepResponse(G, id, new_status, response) ==
    update_grievance_status(G, id, new_status,
                            IF response = "" THEN RowOf(G, id).response ELSE response)

(* the write of the Update button: the selected status and the response    *)
(* text go to update_grievance_status as they are                           *)
UpdateWrite(G, id, new_status, response) ==
    update_grievance_status(G, id, new_status, response)

(* the Update button of grievance id in the admin panel: the first run      *)
(* reads the table, evaluates the widgets and writes; st.rerun() then       *)
(* renders the panel again                                                  *)
AdminUpdate(s, id, reset) ==
    /\ LoggedIn(s)
    /\ page[s] = "Admin Panel"
    /\ id \in DOMAIN widgets[s]
    /\ LET first == _show_main_app(s, session[s], page[s], grievances, widgets[s], reset)
           new_status == first.widgets[id].status
           response == first.widgets[id].response
           written == UpdateWrite(grievances, id, new_status, response)
           c == first.calls \o
                <<Call("update_grievance_status", s, session[s].user_role,
                       <<id, new_status, response>>, None)>>
       IN  /\ id \in DOMAIN first.widgets
           /\ grievances' = written
           /\ was_in_progress' = IF new_status = "In Progress"
                                  THEN was_in_progress \cup {id}
                                  ELSE was_in_progress
           /\ Display(s, _show_main_app(s, session[s], page[s], written, first.widgets, FALSE),
                      c)
    /\ UNCHANGED <<users, session, page>>

(* one application of the classifier to a text, outside any submission *)
Analyze(s, text, outcome) ==
    /\ calls' = <<Call("analyze_sentiment_lite", s, session[s].user_role,
                       <<text, outcome>>, analyze_sentiment_lite(text, outcome))>>
    /\ actor' = s
    /\ UNCHANGED <<users, grievances, session, page, widgets, msg, shown, was_in_progress>>

----------------------------------------------------------------------------
(* Specifications *)

(* the handlers, over the given sessions and form inputs *)
App(SS, forms, titles, categories, anons, descriptions, outcomes, statuses, responses) ==
    \/ \E s \in SS, f \in forms, p \in Passwords, q \in Passwords :
          Register(s, f.username, f.email, p, q, f.role)
    \/ \E s \in SS, u \in Usernames, p \in Passwords : Login(s, u, p)
    \/ \E s \in SS, pg \in PageSet("admin") : Navigate(s, pg)
    \/ \E s \in SS : Logout(s)
    \/ \E s \in SS, t \in titles, cat \in categories, anon \in anons,
          d \in descriptions, o \in outcomes : SubmitGrievance(s, t, cat, anon, d, o)
    \/ \E s \in SS, id \in DOMAIN grievances, st \in statuses, r \in responses,
          reset \in BOOLEAN : AdminEdit(s, id, st, r, reset)
    \/ \E s \in SS, id \in DOMAIN grievances, reset \in BOOLEAN : AdminUpdate(s, id, reset)

(* Intake: one browser session, accounts of every role, every submission   *)
(* input varied; staff resolve cases without a response text               *)
Next ==
    App({"s1"}, RegistrationForms, Titles, Categories, BOOLEAN, Descriptions,
        ScorerOutcomes, {"Resolved"}, {""})

Spec == Init /\ [][Next]_vars

(* Triage: one browser session, one kind of submission, every status and   *)
(* response varied                                                         *)
NextTriage ==
    App({"s1"}, TriageForms, {"Leaky roof"}, {"Academic"}, {FALSE},
        Descriptions \ {EmptyText}, {"ok"}, Statuses, ResponseTexts)

SpecTriage == Init /\ [][NextTriage]_vars

(* Two staff sessions side by side on one case that has been submitted     *)
InitConcurrent ==
    /\ users = create_user(create_user([u \in Usernames |-> NoUser],
                                       "alice", "a@uni.edu", "secret1", "admin"),
                           "bob", "b@uni.edu", "secret1", "staff")
    /\ \E d \in Descriptions \ {EmptyText} :
          grievances = submit_grievance(<<>>, 0, "Leaky roof", "Academic", d,
                                        analyze_sentiment_lite(d, "ok").sentiment,
                                        analyze_sentiment_lite(d, "ok").priority)
    /\ session = [s \in Sessions |-> NoSession]
    /\ page = [s \in Sessions |-> None]
    /\ widgets = [s \in Sessions |-> NoWidgets]
    /\ actor = None
    /\ msg = None
    /\ shown = {}
    /\ calls = <<>>
    /\ was_in_progress = {}

NextConcurrent ==
    \/ \E s \in Sessions, u \in Usernames, p \in Passwords : Login(s, u, p)
    \/ \E s \in Sessions, pg \in PageSet("admin") : Navigate(s, pg)
    \/ \E s \in Sessions : Logout(s)
    \/ \E s \in Sessions, id \in DOMAIN grievances, st \in Statuses, r \in ResponseTexts,
          reset \in BOOLEAN : AdminEdit(s, id, st, r, reset)
    \/ \E s \in Sessions, id \in DOMAIN grievances, reset \in BOOLEAN : AdminUpdate(s, id, reset)

SpecConcurrent == InitConcurrent /\ [][NextConcurrent]_vars

(* the classifier alone, applied to the probe texts *)
NextClassifier ==
    \E s \in {"s1"}, text \in ProbeTexts, o \in ScorerOutcomes : Analyze(s, text, o)

SpecClassifier == Init /\ [][NextClassifier]_vars


----------------------------------------------------------------------------
(* Properties *)

CallsOf(log, op) == { log[k] : k \in { j \in DOMAIN log : log[j].op = op } }

Analyses == CallsOf(calls, "analyze_sentiment_lite")

IsStaffRole(role) == role = "admin" \/ role = "staff"

(* C1: when the scorers answer, sentiment and priority follow the rule     *)
(* table on the compound score alone: >= 0.05 positive/3; <= -0.05         *)
(* negative, priority 1 when <= -0.5 and 2 otherwise; anything between     *)
(* neutral/2.                                                              *)
SentimentFollowsRuleTable ==
    \A a \in Analyses :
        a.arg[2] = "ok" =>
            LET c == a.arg[1].compound
            IN  /\ c >= 50000 => a.ret.sentiment = "positive" /\ a.ret.priority = 3
                /\ c <= -500000 => a.ret.sentiment = "negative" /\ a.ret.priority = 1
                /\ (c <= -50000 /\ c > -500000) =>
                       a.ret.sentiment = "negative" /\ a.ret.priority = 2
                /\ (c > -50000 /\ c < 50000) =>
                       a.ret.sentiment = "neutral" /\ a.ret.priority = 2

(* the boundary score -0.05 has been classified, as negative with priority 2 *)
BoundaryClassified ==
    \E a \in Analyses :
        /\ a.arg[2] = "ok"
        /\ a.arg[1].compound = -50000
        /\ a.ret.sentiment = "negative"
        /\ a.ret.priority = 2

(* C9: the impact score is min(|c| + n/100, 1.0), so it lies in [0, 1]; the *)
(* fallback 0.5 lies there too.                                             *)
ImpactScoreClamped ==
    \A a \in Analyses :
        LET c == a.arg[1].compound
            n == a.arg[1].words
            raw == (IF c < 0 THEN -c ELSE c) + n * 10000
        IN  /\ a.ret.impact_score >= 0
            /\ a.ret.impact_score <= 1000000
            /\ a.arg[2] = "ok" =>
                   a.ret.impact_score = IF raw > 1000000 THEN 1000000 ELSE raw
            /\ a.arg[2] # "ok" => a.ret.impact_score = 500000

(* a neutral text of 1000 words has been scored, at exactly 1.0 *)
LongTextClamped ==
    \E a \in Analyses :
        /\ a.arg[2] = "ok"
        /\ a.arg[1].compound = 0
        /\ a.arg[1].words = 1000
        /\ a.ret.impact_score = 1000000

(* C2: when a scorer fails in a submission with title and description, the *)
(* analysis is the neutral fallback record and the grievance is still      *)
(* stored, as neutral with priority 2, and reported as submitted.          *)
ScorerFailureFailsSoft ==
    \A k \in DOMAIN calls :
        (calls[k].op = "analyze_sentiment_lite" /\ calls[k].arg[2] # "ok") =>
            /\ calls[k].ret = [sentiment |-> "neutral", priority |-> 2, compound_score |-> 0,
                               impact_score |-> 500000, analysis |-> {}]
            /\ k < Len(calls)
            /\ calls[k + 1].op = "submit_grievance"
            /\ grievances # <<>>
            /\ grievances[calls[k + 1].ret].description = calls[k].arg[1]
            /\ grievances[calls[k + 1].ret].sentiment = "neutral"
            /\ grievances[calls[k + 1].ret].priority = 2
            /\ msg = "Grievance submitted successfully!"

(* a submission whose second scorer failed on a strongly negative text has *)
(* been stored                                                             *)
FailedScorerSubmissionStored ==
    \E k \in DOMAIN calls :
        /\ calls[k].op = "analyze_sentiment_lite"
        /\ calls[k].arg[2] = "textblob_fails"
        /\ calls[k].arg[1].compound <= -500000
        /\ grievances # <<>>
        /\ grievances[Len(grievances)].sentiment = "neutral"

(* C8: a submission with an empty title or description makes no scorer or  *)
(* persistence call, leaves the grievances as they were and shows the      *)
(* required-fields message.                                                *)
EmptySubmissionRejected ==
    [][ \A k \in DOMAIN calls' :
          ( /\ calls'[k].op = "grievance_form"
            /\ (calls'[k].arg[1] = "" \/ ~calls'[k].arg[2].nonempty) ) =>
              /\ Len(calls') = 1
              /\ grievances' = grievances
              /\ msg' = "Please fill in all required fields." ]_vars

(* a form with a title and no description has been submitted and rejected *)
EmptyDescriptionRejected ==
    /\ Len(calls) = 1
    /\ calls[1].op = "grievance_form"
    /\ calls[1].arg[1] # ""
    /\ ~calls[1].arg[2].nonempty
    /\ msg = "Please fill in all required fields."


Updates(log) == CallsOf(log, "update_grievance_status")

Payload(row) ==
    <<row.id, row.user_id, row.title, row.category, row.description, row.sentiment,
      row.priority>>

(* C3: sentiment and priority are computed once, at submission, from the   *)
(* description: a new row carries the result of the one analysis of its    *)
(* description made by the handler that stored it, and no later handler    *)
(* changes the sentiment, priority, title, category or description of a    *)
(* stored row.                                                             *)
ScoredOnceAtSubmission ==
    [][ /\ \A i \in DOMAIN grievances :
              /\ i \in DOMAIN grievances'
              /\ Payload(grievances'[i]) = Payload(grievances[i])
        /\ \A i \in DOMAIN grievances' \ DOMAIN grievances :
              /\ Cardinality(CallsOf(calls', "analyze_sentiment_lite")) = 1
              /\ \A a \in CallsOf(calls', "analyze_sentiment_lite") :
                    /\ a.arg[1] = grievances'[i].description
                    /\ a.ret.sentiment = grievances'[i].sentiment
                    /\ a.ret.priority = grievances'[i].priority ]_vars

(* a staff update has resolved a case whose stored sentiment is the one    *)
(* its description was given at submission                                 *)
UpdatedCaseKeepsScore ==
    \E u \in Updates(calls) :
        /\ grievances[u.arg[1]].status = "Resolved"
        /\ grievances[u.arg[1]].sentiment = "negative"
        /\ grievances[u.arg[1]].priority = 1

(* C4, as claimed: the status only advances through Pending, In Progress,  *)
(* Resolved: no step moves a case to an earlier status, so a Resolved case *)
(* never changes status again.                                             *)
StatusOnlyAdvances ==
    [][ \A i \in DOMAIN grievances :
            Rank(grievances'[i].status) >= Rank(grievances[i].status) ]_vars

(* C4, amended: a case starts Pending, its status is always one of the     *)
(* three, it changes only in an admin-panel update, and the update stores  *)
(* the status selected, whatever the status before.                        *)
StatusIsTheOneSelected ==
    [][ /\ \A i \in DOMAIN grievances' \ DOMAIN grievances :
              grievances'[i].status = "Pending"
        /\ \A i \in DOMAIN grievances :
              /\ grievances'[i].status \in {"Pending", "In Progress", "Resolved"}
              /\ grievances'[i].status # grievances[i].status =>
                     \E u \in Updates(calls') : u.arg[1] = i
              /\ \A u \in Updates(calls') :
                     u.arg[1] = i => grievances'[i].status = u.arg[2] ]_vars

(* a case that has been In Progress is Pending again *)
StatusMovedBack ==
    \E i \in DOMAIN grievances :
        /\ i \in was_in_progress
        /\ grievances[i].status = "Pending"
        /\ \E u \in Updates(calls) : u.arg[1] = i /\ u.arg[2] = "Pending"

(* C5: an update of a Pending case with Resolved selected is stored in     *)
(* that one step, together with the response text submitted, and the case  *)
(* has not been In Progress on the way.                                    *)
PendingResolvesDirectly ==
    [][ \A i \in DOMAIN grievances : \A u \in Updates(calls') :
            ( /\ u.arg[1] = i
              /\ u.arg[2] = "Resolved"
              /\ grievances[i].status = "Pending" ) =>
                /\ grievances'[i].status = "Resolved"
                /\ grievances'[i].response = u.arg[3]
                /\ (i \in was_in_progress') = (i \in was_in_progress) ]_vars

(* a case that was never In Progress is Resolved, with a response text *)
ResolvedWithoutInProgress ==
    \E u \in Updates(calls) :
        /\ u.arg[2] = "Resolved"
        /\ u.arg[3] = "Being looked into"
        /\ u.arg[1] \notin was_in_progress
        /\ grievances[u.arg[1]].status = "Resolved"
        /\ grievances[u.arg[1]].response = "Being looked into"

Triage(row) == <<row.status, row.response>>

NoLeakToOtherRoles ==
    (actor \in Sessions /\ ~IsStaffRole(session[actor].user_role)) =>
        /\ widgets[actor] = NoWidgets
        /\ \A g \in CallsOf(calls, "get_grievances") :
              /\ g.arg # NoId
              /\ g.arg = session[actor].user_id
        /\ \A id \in shown :
              /\ Truthy(session[actor].user_id)
              /\ grievances[id].user_id = session[actor].user_id[1]

(* a student has opened My Grievances while a case of somebody else is     *)
(* stored, and is not shown it                                             *)
StudentSeesOnlyOwn ==
    /\ actor \in Sessions
    /\ session[actor].user_role = "student"
    /\ page[actor] = "My Grievances"
    /\ CallsOf(calls, "get_grievances") # {}
    /\ \E i \in DOMAIN grievances :
          /\ grievances[i].user_id # session[actor].user_id[1]
          /\ i \notin shown

(* C10: both of two staff sessions that have loaded a case can update it;  *)
(* each update is stored as submitted, so after both the stored status and *)
(* response are the pair of the update applied last, and nothing of the    *)
(* earlier one remains; between updates the pair does not change.          *)
LastWriteWins ==
    [][ \A i \in DOMAIN grievances :
            IF \E u \in Updates(calls') : u.arg[1] = i
            THEN \A u \in Updates(calls') :
                     u.arg[1] = i => Triage(grievances'[i]) = <<u.arg[2], u.arg[3]>>
            ELSE Triage(grievances'[i]) = Triage(grievances[i]) ]_vars

(* one session stored Resolved with a response; the other, which had the   *)
(* case loaded before, changed only the status and its update replaced     *)
(* both with In Progress and the empty response it had loaded              *)
StaleUpdateOverwrote ==
    \E s1 \in Sessions, s2 \in Sessions, i \in DOMAIN grievances :
        /\ s1 # s2
        /\ i \in DOMAIN widgets[s1]
        /\ widgets[s1][i].defStatus = "Resolved"
        /\ widgets[s1][i].defResponse = "Being looked into"
        /\ widgets[s1][i].status = "Resolved"
        /\ widgets[s1][i].response = "Being looked into"
        /\ \E u \in Updates(calls) :
              u.sess = s2 /\ u.arg = <<i, "In Progress", "">>
        /\ Triage(grievances[i]) = <<"In Progress", "">>

=============================================================================
